---- MODULE Spec2Model ----
(***************************************************************************)
(* A model of jupyter_notebooks/headerspace_explanation.py: the AST of IP  *)
(* spaces and match expressions, the parser, the ACL simplifier, the       *)
(* explanation builder and the renderer; and of CommandList of            *)
(* pybatfish/validation/commands.py, which runs a list of commands against *)
(* a session.                                                              *)
(*                                                                         *)
(* Python values are records tagged with their class in the field cls.     *)
(* A Python str is [cls |-> "str", s |-> t] where t is a sequence of       *)
(* tokens whose concatenation is the string: a token is one digit, "-",    *)
(* one letter of an interface name, a literal the program emits, or an     *)
(* opaque word holding at least one character that is neither a digit nor  *)
(* "-".  A raised exception is the record [cls |-> "Error", type |-> ..].  *)
(***************************************************************************)
EXTENDS Integers, Sequences, FiniteSets, TLC

VARIABLES call, arg, ret, ast, renders, session, results

vars == <<call, arg, ret, ast, renders, session, results>>

-----------------------------------------------------------------------------
(* Bounds of the model.                                                    *)

MaxLines == 3
MaxInnerLines == 2
MaxParseLines == 2
MaxConjuncts == 3
MaxOrConjuncts == 2
MaxDisjuncts == 2
MaxRenders == 2
MaxOperands == 2
MaxItems == 2
MaxFields == 2
MaxAnyConjuncts == 2
MaxChars == 3
MaxCmds == 3

-----------------------------------------------------------------------------
(* Python values.                                                          *)

Str(t) == [cls |-> "str", s |-> t]
None == [cls |-> "NoneType"]
Bool(b) == [cls |-> "bool", b |-> b]
PyInt(n) == [cls |-> "int", n |-> n]
List(xs) == [cls |-> "list", items |-> xs]
Dict(kvs) == [cls |-> "dict", items |-> kvs]
KV(k, v) == [k |-> k, v |-> v]
Error(t) == [cls |-> "Error", type |-> t]
IsErr(v) == v.cls = "Error"

AclIpSpace(lines) == [cls |-> "AclIpSpace", lines |-> lines]
AclIpSpaceLine(action, ipSpace) ==
    [cls |-> "AclIpSpaceLine", action |-> action, ipSpace |-> ipSpace]
IpSpaceComplement(ipSpace) == [cls |-> "IpSpaceComplement", ipSpace |-> ipSpace]
IpSpaceIntersection(ipSpaces) ==
    [cls |-> "IpSpaceIntersection", ipSpaces |-> ipSpaces]
OrMatchExpr(disjuncts) == [cls |-> "OrMatchExpr", disjuncts |-> disjuncts]
AndMatchExpr(conjuncts) == [cls |-> "AndMatchExpr", conjuncts |-> conjuncts]
IpIpSpace(ip) == [cls |-> "IpIpSpace", ip |-> ip]
IpWildcard(ipWildcard) == [cls |-> "IpWildcard", ipWildcard |-> ipWildcard]
IpWildcardIpSpace(ipWildcard) == [cls |-> "IpWildcardIpSpace", ipWildcard |-> ipWildcard]
IpWildcardSetIpSpace(whitelist) ==
    [cls |-> "IpWildcardSetIpSpace", whitelist |-> whitelist]
MatchHeaderSpace(headerSpace) ==
    [cls |-> "MatchHeaderSpace", headerSpace |-> headerSpace]
MatchSrcInterface(srcInterfaces) ==
    [cls |-> "MatchSrcInterface", srcInterfaces |-> srcInterfaces]
NotMatchExpr(operand) == [cls |-> "NotMatchExpr", operand |-> operand]
OriginatingFromDevice == [cls |-> "OriginatingFromDevice"]
SubRange(start, end) == [cls |-> "SubRange", start |-> start, end |-> end]
TrueExpr == [cls |-> "TrueExpr"]
(* The parser hands UnionIpSpace a lazy map iterator over the lines: items *)
(* is what it will yield, done says whether it has been consumed.          *)
MapIter(items, done) == [cls |-> "map", items |-> items, done |-> done]
UnionIpSpace(ipSpaces) == [cls |-> "UnionIpSpace", ipSpaces |-> ipSpaces]
UniverseIpSpace == [cls |-> "UniverseIpSpace"]
Explanation(p, n, o) ==
    [cls |-> "Explanation", positiveHeaderSpace |-> p,
     negativeHeaderSpaces |-> n, origination |-> o]

(* The fields of a namedtuple instance, in declaration order.              *)
Fields(v) ==
    CASE v.cls = "AclIpSpace" -> <<List(v.lines)>>
      [] v.cls = "AclIpSpaceLine" -> <<v.action, v.ipSpace>>
      [] v.cls = "IpSpaceComplement" -> <<v.ipSpace>>
      [] v.cls = "IpSpaceIntersection" -> <<List(v.ipSpaces)>>
      [] v.cls = "OrMatchExpr" -> <<List(v.disjuncts)>>
      [] v.cls = "AndMatchExpr" -> <<List(v.conjuncts)>>
      [] v.cls = "IpIpSpace" -> <<v.ip>>
      [] v.cls \in {"IpWildcard", "IpWildcardIpSpace"} -> <<v.ipWildcard>>
      [] v.cls = "IpWildcardSetIpSpace" -> <<v.whitelist>>
      [] v.cls = "MatchHeaderSpace" -> <<v.headerSpace>>
      [] v.cls = "MatchSrcInterface" -> <<v.srcInterfaces>>
      [] v.cls = "NotMatchExpr" -> <<v.operand>>
      [] v.cls = "SubRange" -> <<PyInt(v.start), PyInt(v.end)>>
      [] v.cls = "UnionIpSpace" -> <<v.ipSpaces>>
      [] v.cls = "Explanation" ->
            <<v.positiveHeaderSpace, List(v.negativeHeaderSpaces), v.origination>>
      [] OTHER -> <<>>

NamedTuples ==
    {"AclIpSpace", "AclIpSpaceLine", "IpSpaceComplement", "IpSpaceIntersection",
     "OrMatchExpr", "AndMatchExpr", "IpIpSpace", "IpWildcard", "IpWildcardIpSpace",
     "IpWildcardSetIpSpace", "MatchHeaderSpace",
     "MatchSrcInterface", "NotMatchExpr", "OriginatingFromDevice", "SubRange",
     "TrueExpr", "UnionIpSpace", "UniverseIpSpace", "Explanation"}

(* Python's == on these values: a namedtuple is a tuple, so two instances  *)
(* are equal when their fields are, whatever their classes; a bool is the  *)
(* int 0 or 1; a dict is equal to a dict with the same pairs in any order. *)
RECURSIVE Canon(_)
Canon(v) ==
    CASE v.cls \in NamedTuples ->
            [t |-> "tuple",
             items |-> [i \in 1..Len(Fields(v)) |-> Canon(Fields(v)[i])]]
      [] v.cls = "list" ->
            [t |-> "list", items |-> [i \in 1..Len(v.items) |-> Canon(v.items[i])]]
      [] v.cls = "dict" ->
            [t |-> "dict",
             pairs |-> {<<v.items[i].k, Canon(v.items[i].v)>> : i \in 1..Len(v.items)}]
      [] v.cls = "str" -> [t |-> "str", s |-> v.s]
      [] v.cls = "bool" -> [t |-> "num", n |-> IF v.b THEN 1 ELSE 0]
      [] v.cls = "int" -> [t |-> "num", n |-> v.n]
      [] v.cls = "NoneType" -> [t |-> "None"]
      [] OTHER -> [t |-> "object", id |-> v]

PyEq(a, b) == Canon(a) = Canon(b)

-----------------------------------------------------------------------------
(* The simplifier.                                                         *)

hasattr_simplify(v) == v.cls \in {"AclIpSpace", "AclIpSpaceLine"}

RECURSIVE AclIpSpace_simplify(_)
RECURSIVE AclIpSpaceLine_simplify(_)

obj_simplify(v) ==
    IF v.cls = "AclIpSpace" THEN AclIpSpace_simplify(v)
    ELSE IF v.cls = "AclIpSpaceLine" THEN AclIpSpaceLine_simplify(v)
    ELSE Error("AttributeError")

AclIpSpaceLine_simplify(self) ==
    IF hasattr_simplify(self.ipSpace)
    THEN AclIpSpaceLine(self.action, obj_simplify(self.ipSpace))
    ELSE self

PERMIT == Str(<<"PERMIT">>)
DENY == Str(<<"DENY">>)
PermitUniverse == AclIpSpaceLine(PERMIT, UniverseIpSpace)

(* Mutants of AclIpSpace_simplify: the lines are not simplified first; the *)
(* operands of the intersection are taken in the wrong order.              *)
AclIpSpace_simplify_raw_lines(self) ==
    LET lines == self.lines
    IN  IF /\ Len(lines) = 2
           /\ PyEq(lines[1].action, DENY)
           /\ PyEq(lines[2], PermitUniverse)
        THEN IpSpaceComplement(lines[1].ipSpace)
        ELSE IF /\ Len(lines) = 3
                /\ PyEq(lines[1].action, DENY)
                /\ lines[1].ipSpace.cls = "IpSpaceComplement"
                /\ PyEq(lines[2].action, DENY)
                /\ lines[2].ipSpace.cls = "IpSpaceComplement"
                /\ PyEq(lines[3], PermitUniverse)
        THEN IpSpaceIntersection(<<lines[1].ipSpace.ipSpace, lines[2].ipSpace.ipSpace>>)
        ELSE AclIpSpace(lines)

AclIpSpace_simplify_swapped(self) ==
    LET lines == [i \in 1..Len(self.lines) |-> AclIpSpaceLine_simplify(self.lines[i])]
    IN  IF /\ Len(lines) = 2
           /\ PyEq(lines[1].action, DENY)
           /\ PyEq(lines[2], PermitUniverse)
        THEN IpSpaceComplement(lines[1].ipSpace)
        ELSE IF /\ Len(lines) = 3
                /\ PyEq(lines[1].action, DENY)
                /\ lines[1].ipSpace.cls = "IpSpaceComplement"
                /\ PyEq(lines[2].action, DENY)
                /\ lines[2].ipSpace.cls = "IpSpaceComplement"
                /\ PyEq(lines[3], PermitUniverse)
        THEN IpSpaceIntersection(<<lines[2].ipSpace.ipSpace, lines[1].ipSpace.ipSpace>>)
        ELSE AclIpSpace(lines)

AclIpSpace_simplify(self) ==
    LET lines == [i \in 1..Len(self.lines) |-> AclIpSpaceLine_simplify(self.lines[i])]
    IN  IF /\ Len(lines) = 2
           /\ PyEq(lines[1].action, DENY)
           /\ PyEq(lines[2], PermitUniverse)
        THEN IpSpaceComplement(lines[1].ipSpace)
        ELSE IF /\ Len(lines) = 3
                /\ PyEq(lines[1].action, DENY)
                /\ lines[1].ipSpace.cls = "IpSpaceComplement"
                /\ PyEq(lines[2].action, DENY)
                /\ lines[2].ipSpace.cls = "IpSpaceComplement"
                /\ PyEq(lines[3], PermitUniverse)
        THEN IpSpaceIntersection(<<lines[1].ipSpace.ipSpace, lines[2].ipSpace.ipSpace>>)
        ELSE AclIpSpace(lines)

-----------------------------------------------------------------------------
(* Text and the str operations the program uses.                           *)

Digits == <<"0", "1", "2", "3", "4", "5", "6", "7", "8", "9">>

(* str(n) for an int n >= 0.                                               *)
RECURSIVE IntText(_)
IntText(n) ==
    IF n < 10 THEN <<Digits[n + 1]>>
    ELSE IntText(n \div 10) \o <<Digits[(n % 10) + 1]>>

RECURSIVE Join(_, _)
Join(ts, sep) ==
    IF Len(ts) = 0 THEN <<>>
    ELSE IF Len(ts) = 1 THEN ts[1]
    ELSE ts[1] \o <<sep>> \o Join(Tail(ts), sep)

AnyErr(rs) == \E i \in 1..Len(rs) : IsErr(rs[i])
FirstErr(rs) ==
    rs[CHOOSE i \in 1..Len(rs) : IsErr(rs[i]) /\ \A j \in 1..(i - 1) : ~IsErr(rs[j])]

(* sep.join(rs): the items are computed first, in order, so the first      *)
(* exception among them is the one raised; an item that is no str is a     *)
(* TypeError.                                                              *)
StrJoin(sep, rs) ==
    IF AnyErr(rs) THEN FirstErr(rs)
    ELSE IF \E i \in 1..Len(rs) : rs[i].cls # "str" THEN Error("TypeError")
    ELSE Str(Join([i \in 1..Len(rs) |-> rs[i].s], sep))

HasKey(d, k) == \E i \in 1..Len(d.items) : d.items[i].k = k
Get(d, k) == d.items[CHOOSE i \in 1..Len(d.items) : d.items[i].k = k].v
Subscript(d, k) == IF HasKey(d, k) THEN Get(d, k) ELSE Error("KeyError")

Truthy(v) ==
    CASE v.cls = "bool" -> v.b
      [] v.cls = "int" -> v.n # 0
      [] v.cls = "NoneType" -> FALSE
      [] v.cls = "str" -> Len(v.s) > 0
      [] v.cls \in {"list", "dict"} -> Len(v.items) > 0
      [] OTHER -> Len(Fields(v)) > 0

(* repr(v) and str(v), as the % operator of str uses them.                 *)
RECURSIVE Repr(_)
Repr(v) ==
    CASE v.cls = "str" -> <<"'">> \o v.s \o <<"'">>
      [] v.cls = "int" -> IntText(v.n)
      [] v.cls = "bool" -> IF v.b THEN <<"True">> ELSE <<"False">>
      [] v.cls = "NoneType" -> <<"None">>
      [] v.cls = "list" ->
            <<"[">> \o Join([i \in 1..Len(v.items) |-> Repr(v.items[i])], ", ") \o <<"]">>
      [] v.cls = "dict" ->
            <<"{">> \o Join([i \in 1..Len(v.items) |->
                              <<"'", v.items[i].k, "'", ": ">> \o Repr(v.items[i].v)], ", ")
                   \o <<"}">>
      [] OTHER ->
            <<v.cls, "(">> \o Join([i \in 1..Len(Fields(v)) |-> Repr(Fields(v)[i])], ", ")
                          \o <<")">>

PyStr(v) == IF v.cls = "str" THEN v.s ELSE Repr(v)

(* Whether hash(v) succeeds: a list or a dict is unhashable, and so is a   *)
(* tuple that holds one.                                                   *)
RECURSIVE Hashable(_)
Hashable(v) ==
    CASE v.cls \in {"list", "dict"} -> FALSE
      [] v.cls \in NamedTuples -> \A i \in 1..Len(Fields(v)) : Hashable(Fields(v)[i])
      [] OTHER -> TRUE

-----------------------------------------------------------------------------
(* The renderer.                                                           *)

renameHeaderSpaceField(nm) == IF nm = "tcpFlagsMatchConditions" THEN "tcpFlags" ELSE nm

useToFlag ==
    <<KV("useAck", "ack"), KV("useCwr", "cwr"), KV("useEce", "ece"), KV("useFin", "fin"),
      KV("usePsh", "psh"), KV("useRst", "rst"), KV("useSyn", "syn"), KV("useUrg", "urg")>>

(* The dict of the flags in use; the lookups are made in the order of      *)
(* useToFlag, and the first that fails raises.                             *)
tcp_flags_to_str(obj) ==
    LET val == Get(obj, "tcpFlags")
        use(i) == Subscript(obj, useToFlag[i].k)
        look(i) ==
            IF IsErr(use(i)) THEN use(i)
            ELSE IF ~Truthy(use(i)) THEN None
            ELSE IF val.cls # "dict" THEN Error("TypeError")
            ELSE Subscript(val, useToFlag[i].v)
        looks == [i \in 1..Len(useToFlag) |-> look(i)]
        kept == SelectSeq([i \in 1..Len(useToFlag) |-> i],
                          LAMBDA i : ~IsErr(use(i)) /\ Truthy(use(i)))
    IN  IF AnyErr(looks) THEN FirstErr(looks)
        ELSE Dict([j \in 1..Len(kept) |-> KV(useToFlag[kept[j]].v, looks[kept[j]])])

RECURSIVE to_str(_)
RECURSIVE obj_to_str(_)

dict_to_str(obj) ==
    StrJoin(", ", [i \in 1..Len(obj.items) |->
        LET r == to_str(obj.items[i].v)
        IN  IF IsErr(r) THEN r ELSE Str(<<obj.items[i].k, "=">> \o PyStr(r))])

AclIpSpace_to_str(self) ==
    StrJoin("\n", [i \in 1..Len(self.lines) |-> to_str(self.lines[i])])

AclIpSpaceLine_to_str(self) ==
    LET r == to_str(self.ipSpace)
    IN  IF IsErr(r) THEN r ELSE Str(PyStr(self.action) \o <<" ">> \o PyStr(r))

IpSpaceComplement_to_str(self) ==
    LET r == obj_to_str(self.ipSpace)
    IN  IF IsErr(r) THEN r
        ELSE IF r.cls # "str" THEN Error("TypeError")
        ELSE Str(<<"not ">> \o r.s)

IpSpaceIntersection_to_str(self) ==
    LET xs == self.ipSpaces
    IN  IF \E i \in 1..Len(xs) : ~Hashable(xs[i]) THEN Error("TypeError")
        ELSE IF Cardinality({Canon(xs[i]) : i \in 1..Len(xs)}) = 1
        THEN obj_to_str(xs[1])
        ELSE LET r == StrJoin(", ", [i \in 1..Len(xs) |-> obj_to_str(xs[i])])
             IN  IF IsErr(r) THEN r ELSE Str(<<"intersect(">> \o r.s \o <<")">>)

(* Mutant of MatchHeaderSpace_to_str: negate is dropped whatever its       *)
(* value.                                                                  *)
MatchHeaderSpace_to_str_drop_negate(self) ==
    IF self.headerSpace.cls = "NoneType" THEN Str(<<"full headerspace">>)
    ELSE IF Len(self.headerSpace.items) = 0 THEN Str(<<"full headerspace">>)
    ELSE LET kept == SelectSeq(self.headerSpace.items, LAMBDA kv : kv.k # "negate")
         IN  StrJoin(", ", [i \in 1..Len(kept) |->
                 LET r == to_str(kept[i].v)
                 IN  IF IsErr(r) THEN r
                     ELSE Str(<<renameHeaderSpaceField(kept[i].k), ": ">> \o PyStr(r))])

MatchHeaderSpace_to_str(self) ==
    IF self.headerSpace.cls = "NoneType" THEN Str(<<"full headerspace">>)
    ELSE IF Len(self.headerSpace.items) = 0 THEN Str(<<"full headerspace">>)
    ELSE LET hs == self.headerSpace.items
             dropNegate == HasKey(self.headerSpace, "negate")
                           /\ Get(self.headerSpace, "negate") = Bool(FALSE)
             kept == IF dropNegate THEN SelectSeq(hs, LAMBDA kv : kv.k # "negate") ELSE hs
         IN  StrJoin(", ", [i \in 1..Len(kept) |->
                 LET r == to_str(kept[i].v)
                 IN  IF IsErr(r) THEN r
                     ELSE Str(<<renameHeaderSpaceField(kept[i].k), ": ">> \o PyStr(r))])

IpWildcardSetIpSpace_to_str(self) ==
    LET w == self.whitelist
    IN  CASE w.cls = "list" -> IF Len(w.items) = 1 THEN w.items[1] ELSE to_str(w)
          [] w.cls = "str" -> IF Len(w.s) = 1 THEN w ELSE to_str(w)
          [] w.cls = "dict" -> IF Len(w.items) = 1 THEN Error("KeyError") ELSE to_str(w)
          [] w.cls \in NamedTuples ->
                IF Len(Fields(w)) = 1 THEN Fields(w)[1] ELSE to_str(w)
          [] OTHER -> Error("TypeError")

SubRange_to_str(obj) ==
    IF obj.start = obj.end THEN Str(IntText(obj.start))
    ELSE Str(IntText(obj.start) \o <<" to ">> \o IntText(obj.end))

(* list(self.ipSpaces): what the map iterator still yields.                *)
ListOf(it) ==
    IF it.cls = "map" THEN (IF it.done THEN <<>> ELSE it.items) ELSE it.items

UnionIpSpace_to_str(self) ==
    LET spaces == ListOf(self.ipSpaces)
    IN  IF Len(spaces) = 1 THEN obj_to_str(spaces[1])
        ELSE LET r == StrJoin(", ", [i \in 1..Len(spaces) |-> obj_to_str(spaces[i])])
             IN  IF IsErr(r) THEN r ELSE Str(<<"union(">> \o r.s \o <<")">>)

(* The origination line of an explanation, or none.                        *)
OriginationLines(origination) ==
    IF origination.cls = "OriginatingFromDevice"
    THEN <<Str(<<"Originating from device">>)>>
    ELSE IF origination.cls = "MatchSrcInterface"
    THEN LET ifaces == origination.srcInterfaces.items
         IN  IF ~(Len(ifaces) > 0) THEN <<Error("AssertionError")>>
             ELSE IF Len(ifaces) = 1
             THEN <<Str(<<"Originating from interface ">> \o ifaces[1].s)>>
             ELSE <<Str(<<"Originating from one interface of: ">>
                        \o Join([i \in 1..Len(ifaces[1].s) |-> <<ifaces[1].s[i]>>], ", "))>>
    ELSE <<>>

(* Mutant of Explanation_to_str: the header-space line comes first.        *)
Explanation_to_str_positive_first(self) ==
    LET positive ==
            IF self.positiveHeaderSpace.cls # "NoneType"
            THEN LET r == to_str(self.positiveHeaderSpace)
                 IN  IF IsErr(r) THEN r
                     ELSE IF r.cls # "str" THEN Error("TypeError")
                     ELSE Str(<<"Including ">> \o r.s)
            ELSE Str(<<"Full HeaderSpace">>)
        negative ==
            [i \in 1..Len(self.negativeHeaderSpaces) |->
                LET r == to_str(self.negativeHeaderSpaces[i])
                IN  IF IsErr(r) THEN r
                    ELSE IF r.cls # "str" THEN Error("TypeError")
                    ELSE Str(<<"Excluding ">> \o r.s)]
    IN  StrJoin("\n", <<positive>> \o OriginationLines(self.origination) \o negative)

Explanation_to_str(self) ==
    LET positive ==
            IF self.positiveHeaderSpace.cls # "NoneType"
            THEN LET r == to_str(self.positiveHeaderSpace)
                 IN  IF IsErr(r) THEN r
                     ELSE IF r.cls # "str" THEN Error("TypeError")
                     ELSE Str(<<"Including ">> \o r.s)
            ELSE Str(<<"Full HeaderSpace">>)
        negative ==
            [i \in 1..Len(self.negativeHeaderSpaces) |->
                LET r == to_str(self.negativeHeaderSpaces[i])
                IN  IF IsErr(r) THEN r
                    ELSE IF r.cls # "str" THEN Error("TypeError")
                    ELSE Str(<<"Excluding ">> \o r.s)]
    IN  StrJoin("\n", OriginationLines(self.origination) \o <<positive>> \o negative)

obj_to_str(obj) ==
    CASE obj.cls = "AclIpSpace" -> AclIpSpace_to_str(obj)
      [] obj.cls = "AclIpSpaceLine" -> AclIpSpaceLine_to_str(obj)
      [] obj.cls = "IpSpaceComplement" -> IpSpaceComplement_to_str(obj)
      [] obj.cls = "IpSpaceIntersection" -> IpSpaceIntersection_to_str(obj)
      [] obj.cls = "IpIpSpace" -> obj.ip
      [] obj.cls \in {"IpWildcard", "IpWildcardIpSpace"} -> obj.ipWildcard
      [] obj.cls = "IpWildcardSetIpSpace" -> IpWildcardSetIpSpace_to_str(obj)
      [] obj.cls = "MatchHeaderSpace" -> MatchHeaderSpace_to_str(obj)
      [] obj.cls = "SubRange" -> SubRange_to_str(obj)
      [] obj.cls = "UnionIpSpace" -> UnionIpSpace_to_str(obj)
      [] obj.cls = "UniverseIpSpace" -> Str(<<"any">>)
      [] obj.cls = "Explanation" -> Explanation_to_str(obj)
      [] OTHER -> Error("AttributeError")

to_str(obj) ==
    CASE obj.cls = "str" -> obj
      [] obj.cls = "bool" -> Str(PyStr(obj))
      [] obj.cls = "list" ->
            IF Len(obj.items) = 1 THEN to_str(obj.items[1])
            ELSE LET r == StrJoin(",", [i \in 1..Len(obj.items) |-> to_str(obj.items[i])])
                 IN  IF IsErr(r) THEN r ELSE Str(<<"[">> \o r.s \o <<"]">>)
      [] obj.cls = "dict" ->
            IF HasKey(obj, "tcpFlags") THEN tcp_flags_to_str(obj) ELSE dict_to_str(obj)
      [] obj.cls = "NoneType" -> Error("Exception")
      [] obj.cls = "AclIpSpace" -> obj_to_str(AclIpSpace_simplify(obj))
      [] OTHER -> obj_to_str(obj)

-----------------------------------------------------------------------------
(* The explanation builder.                                                *)

(* Mutants of from_conjucts_step: a conjunct it does not know is skipped;  *)
(* a negated header space is put before the earlier ones.                  *)
from_conjucts_step_lenient(acc, conj) ==
    IF IsErr(acc) THEN acc
    ELSE CASE conj.cls = "MatchHeaderSpace" ->
                IF acc.positiveHeaderSpace.cls # "NoneType" THEN Error("AssertionError")
                ELSE [acc EXCEPT !.positiveHeaderSpace = conj]
           [] conj.cls \in {"MatchSrcInterface", "OriginatingFromDevice"} ->
                IF acc.origination.cls # "NoneType" THEN Error("AssertionError")
                ELSE [acc EXCEPT !.origination = conj]
           [] conj.cls = "NotMatchExpr" ->
                IF conj.operand.cls # "MatchHeaderSpace" THEN acc
                ELSE [acc EXCEPT !.negativeHeaderSpaces = Append(@, conj.operand)]
           [] OTHER -> acc

from_conjucts_step_prepend(acc, conj) ==
    IF IsErr(acc) THEN acc
    ELSE CASE conj.cls = "MatchHeaderSpace" ->
                IF acc.positiveHeaderSpace.cls # "NoneType" THEN Error("AssertionError")
                ELSE [acc EXCEPT !.positiveHeaderSpace = conj]
           [] conj.cls \in {"MatchSrcInterface", "OriginatingFromDevice"} ->
                IF acc.origination.cls # "NoneType" THEN Error("AssertionError")
                ELSE [acc EXCEPT !.origination = conj]
           [] conj.cls = "NotMatchExpr" ->
                IF conj.operand.cls # "MatchHeaderSpace" THEN Error("AssertionError")
                ELSE [acc EXCEPT !.negativeHeaderSpaces = <<conj.operand>> \o @]
           [] conj.cls = "TrueExpr" -> acc
           [] OTHER -> IF conj.cls = "str" THEN Error("Exception") ELSE Error("TypeError")

(* Mutant of from_conjucts_step: a later header space or origination       *)
(* replaces the earlier one.                                               *)
from_conjucts_step_overwrite(acc, conj) ==
    IF IsErr(acc) THEN acc
    ELSE CASE conj.cls = "MatchHeaderSpace" -> [acc EXCEPT !.positiveHeaderSpace = conj]
           [] conj.cls \in {"MatchSrcInterface", "OriginatingFromDevice"} ->
                [acc EXCEPT !.origination = conj]
           [] conj.cls = "NotMatchExpr" ->
                IF conj.operand.cls # "MatchHeaderSpace" THEN Error("AssertionError")
                ELSE [acc EXCEPT !.negativeHeaderSpaces = Append(@, conj.operand)]
           [] conj.cls = "TrueExpr" -> acc
           [] OTHER -> IF conj.cls = "str" THEN Error("Exception") ELSE Error("TypeError")

(* One iteration of the loop of from_conjucts.                             *)
from_conjucts_step(acc, conj) ==
    IF IsErr(acc) THEN acc
    ELSE CASE conj.cls = "MatchHeaderSpace" ->
                IF acc.positiveHeaderSpace.cls # "NoneType" THEN Error("AssertionError")
                ELSE [acc EXCEPT !.positiveHeaderSpace = conj]
           [] conj.cls = "MatchSrcInterface" ->
                IF acc.origination.cls # "NoneType" THEN Error("AssertionError")
                ELSE [acc EXCEPT !.origination = conj]
           [] conj.cls = "NotMatchExpr" ->
                IF conj.operand.cls # "MatchHeaderSpace" THEN Error("AssertionError")
                ELSE [acc EXCEPT !.negativeHeaderSpaces = Append(@, conj.operand)]
           [] conj.cls = "OriginatingFromDevice" ->
                IF acc.origination.cls # "NoneType" THEN Error("AssertionError")
                ELSE [acc EXCEPT !.origination = conj]
           [] conj.cls = "TrueExpr" -> acc
           [] OTHER -> IF conj.cls = "str" THEN Error("Exception") ELSE Error("TypeError")

RECURSIVE from_conjucts_loop(_, _)
from_conjucts_loop(acc, conjuncts) ==
    IF Len(conjuncts) = 0 THEN acc
    ELSE from_conjucts_loop(from_conjucts_step(acc, Head(conjuncts)), Tail(conjuncts))

Explanation_from_conjucts(conjuncts) ==
    from_conjucts_loop(Explanation(None, <<>>, None), conjuncts)

(* obj.to_explanation(), for the classes that define it.                   *)
to_explanation(obj) ==
    CASE obj.cls = "AndMatchExpr" -> Explanation_from_conjucts(obj.conjuncts)
      [] obj.cls \in {"MatchHeaderSpace", "NotMatchExpr", "OriginatingFromDevice"} ->
            Explanation_from_conjucts(<<obj>>)
      [] obj.cls = "TrueExpr" -> Explanation_from_conjucts(<<>>)
      [] OTHER -> Error("AttributeError")

(* Mutant of OrMatchExpr_to_explanations: the disjuncts are taken last to  *)
(* first.                                                                  *)
OrMatchExpr_to_explanations_reversed(self) ==
    LET n == Len(self.disjuncts)
        es == [i \in 1..n |-> to_explanation(self.disjuncts[n + 1 - i])]
    IN  IF AnyErr(es) THEN FirstErr(es) ELSE List(es)

OrMatchExpr_to_explanations(self) ==
    LET es == [i \in 1..Len(self.disjuncts) |-> to_explanation(self.disjuncts[i])]
    IN  IF AnyErr(es) THEN FirstErr(es) ELSE List(es)

(* obj.to_explanations(), for the classes that define it.                  *)
to_explanations(obj) ==
    CASE obj.cls = "OrMatchExpr" -> OrMatchExpr_to_explanations(obj)
      [] obj.cls \in {"AndMatchExpr", "MatchHeaderSpace", "OriginatingFromDevice",
                      "TrueExpr"} ->
            LET e == to_explanation(obj) IN IF IsErr(e) THEN e ELSE List(<<e>>)
      [] OTHER -> Error("AttributeError")

-----------------------------------------------------------------------------
(* The parser.                                                             *)

IsDigit(c) == \E i \in 1..Len(Digits) : Digits[i] = c
DigitValue(c) == (CHOOSE i \in 1..Len(Digits) : Digits[i] = c) - 1

RECURSIVE TextInt(_)
TextInt(t) ==
    IF Len(t) = 0 THEN 0
    ELSE 10 * TextInt(SubSeq(t, 1, Len(t) - 1)) + DigitValue(t[Len(t)])

(* re.compile("\d+-\d+").fullmatch(s)                                      *)
MatchesRange(t) ==
    \E d \in 2..(Len(t) - 1) :
        /\ t[d] = "-"
        /\ \A i \in 1..Len(t) : i # d => IsDigit(t[i])

parseStr(s) ==
    IF MatchesRange(s.s)
    THEN LET d == CHOOSE d \in 2..(Len(s.s) - 1) : s.s[d] = "-"
         IN  SubRange(TextInt(SubSeq(s.s, 1, d - 1)), TextInt(SubSeq(s.s, d + 1, Len(s.s))))
    ELSE s

(* What iterating v yields, or the TypeError of a value that cannot be     *)
(* iterated (or whose elements cannot be subscripted by a field name).     *)
Iter(v) ==
    IF v.cls = "list" THEN v.items
    ELSE IF v.cls \in {"str", "dict"} /\ Len(IF v.cls = "str" THEN v.s ELSE v.items) = 0
    THEN <<>>
    ELSE <<Error("TypeError")>>

(* obj[k] for a value that may not be a dict.                              *)
Field(obj, k) == IF obj.cls = "dict" THEN Subscript(obj, k) ELSE Error("TypeError")

TagPrefix == "org.batfish.datamodel."
RegisteredTags ==
    {"AclIpSpace", "acl.AndMatchExpr", "IpIpSpace", "IpWildcard", "IpWildcardIpSpace",
     "IpWildcardSetIpSpace", "acl.OrMatchExpr", "acl.NotMatchExpr",
     "acl.OriginatingFromDevice", "acl.MatchHeaderSpace", "acl.MatchSrcInterface",
     "acl.TrueExpr", "UniverseIpSpace"}
Tag(name) == Str(<<TagPrefix, name>>)

RECURSIVE parse(_)

(* [parse(x) for x in obj[k]]                                              *)
parseEach(obj, k) ==
    LET f == Field(obj, k)
        xs == Iter(f)
        rs == [i \in 1..Len(xs) |-> IF IsErr(xs[i]) THEN xs[i] ELSE parse(xs[i])]
    IN  IF IsErr(f) THEN f ELSE IF AnyErr(rs) THEN FirstErr(rs) ELSE List(rs)

(* Mutant of parseAclIpSpace: one PERMIT line is enough to collapse.       *)
parseAclIpSpace_any(obj) ==
    LET f == Field(obj, "lines")
        xs == Iter(f)
        line(x) ==
            IF IsErr(x) THEN x
            ELSE IF IsErr(Field(x, "action")) THEN Field(x, "action")
            ELSE IF IsErr(Field(x, "ipSpace")) THEN Field(x, "ipSpace")
            ELSE LET sp == parse(Field(x, "ipSpace"))
                 IN  IF IsErr(sp) THEN sp ELSE AclIpSpaceLine(Field(x, "action"), sp)
        lines == [i \in 1..Len(xs) |-> line(xs[i])]
    IN  IF IsErr(f) THEN f
        ELSE IF AnyErr(lines) THEN FirstErr(lines)
        ELSE IF \E i \in 1..Len(lines) : PyEq(lines[i].action, PERMIT)
        THEN UnionIpSpace(MapIter([i \in 1..Len(lines) |-> lines[i].ipSpace], FALSE))
        ELSE AclIpSpace(lines)

parseAclIpSpace(obj) ==
    LET f == Field(obj, "lines")
        xs == Iter(f)
        line(x) ==
            IF IsErr(x) THEN x
            ELSE IF IsErr(Field(x, "action")) THEN Field(x, "action")
            ELSE IF IsErr(Field(x, "ipSpace")) THEN Field(x, "ipSpace")
            ELSE LET sp == parse(Field(x, "ipSpace"))
                 IN  IF IsErr(sp) THEN sp ELSE AclIpSpaceLine(Field(x, "action"), sp)
        lines == [i \in 1..Len(xs) |-> line(xs[i])]
    IN  IF IsErr(f) THEN f
        ELSE IF AnyErr(lines) THEN FirstErr(lines)
        ELSE IF \A i \in 1..Len(lines) : PyEq(lines[i].action, PERMIT)
        THEN UnionIpSpace(MapIter([i \in 1..Len(lines) |-> lines[i].ipSpace], FALSE))
        ELSE AclIpSpace(lines)

parseAndMatchExpr(obj) ==
    LET r == parseEach(obj, "conjuncts")
    IN  IF IsErr(r) THEN r ELSE AndMatchExpr(r.items)

parseIpIpSpace(obj) ==
    LET f == Field(obj, "ip") IN IF IsErr(f) THEN f ELSE IpIpSpace(f)

parseIpWildcard(obj) ==
    LET f == Field(obj, "ipWildcard") IN IF IsErr(f) THEN f ELSE IpWildcard(f)

parseIpWildcardIpSpace(obj) ==
    LET f == Field(obj, "ipWildcard")
    IN  IF IsErr(f) THEN f
        ELSE IF IsErr(parse(f)) THEN parse(f) ELSE IpWildcardIpSpace(parse(f))

parseIpWildcardSetIpSpace(obj) ==
    LET f == Field(obj, "whitelist")
    IN  IF IsErr(f) THEN f
        ELSE IF IsErr(parse(f)) THEN parse(f) ELSE IpWildcardSetIpSpace(parse(f))

parseOrMatchExpr(obj) ==
    LET r == parseEach(obj, "disjuncts")
    IN  IF IsErr(r) THEN r ELSE OrMatchExpr(r.items)

parseNotMatchExpr(obj) ==
    LET f == Field(obj, "operand")
    IN  IF IsErr(f) THEN f
        ELSE IF IsErr(parse(f)) THEN parse(f) ELSE NotMatchExpr(parse(f))

parseMatchHeaderSpace(obj) ==
    LET f == Field(obj, "headerSpace")
        rs == [i \in 1..Len(f.items) |-> parse(f.items[i].v)]
    IN  IF IsErr(f) THEN f
        ELSE IF f.cls # "dict" THEN Error("AttributeError")
        ELSE IF AnyErr(rs) THEN FirstErr(rs)
        ELSE MatchHeaderSpace(Dict([i \in 1..Len(rs) |-> KV(f.items[i].k, rs[i])]))

parseMatchSrcInterface(obj) ==
    LET f == Field(obj, "srcInterfaces")
    IN  IF IsErr(f) THEN f ELSE MatchSrcInterface(f)

parseObj(obj) ==
    IF ~HasKey(obj, "class") THEN obj
    ELSE LET c == Get(obj, "class")
         IN  IF ~Hashable(c) THEN Error("TypeError")
             ELSE IF ~\E n \in RegisteredTags : PyEq(c, Tag(n)) THEN obj
             ELSE CASE PyEq(c, Tag("AclIpSpace")) -> parseAclIpSpace(obj)
                    [] PyEq(c, Tag("acl.AndMatchExpr")) -> parseAndMatchExpr(obj)
                    [] PyEq(c, Tag("IpIpSpace")) -> parseIpIpSpace(obj)
                    [] PyEq(c, Tag("IpWildcard")) -> parseIpWildcard(obj)
                    [] PyEq(c, Tag("IpWildcardIpSpace")) -> parseIpWildcardIpSpace(obj)
                    [] PyEq(c, Tag("IpWildcardSetIpSpace")) ->
                          parseIpWildcardSetIpSpace(obj)
                    [] PyEq(c, Tag("acl.OrMatchExpr")) -> parseOrMatchExpr(obj)
                    [] PyEq(c, Tag("acl.NotMatchExpr")) -> parseNotMatchExpr(obj)
                    [] PyEq(c, Tag("acl.OriginatingFromDevice")) -> OriginatingFromDevice
                    [] PyEq(c, Tag("acl.MatchHeaderSpace")) -> parseMatchHeaderSpace(obj)
                    [] PyEq(c, Tag("acl.MatchSrcInterface")) -> parseMatchSrcInterface(obj)
                    [] PyEq(c, Tag("acl.TrueExpr")) -> TrueExpr
                    [] PyEq(c, Tag("UniverseIpSpace")) -> UniverseIpSpace

parse(obj) ==
    CASE obj.cls = "dict" -> parseObj(obj)
      [] obj.cls = "str" -> parseStr(obj)
      [] obj.cls = "list" ->
            LET rs == [i \in 1..Len(obj.items) |-> parse(obj.items[i])]
            IN  IF AnyErr(rs) THEN FirstErr(rs) ELSE List(rs)
      [] OTHER -> obj

-----------------------------------------------------------------------------
(* The entry point.  json.loads is the library's: the model starts from    *)
(* the value it returns.                                                   *)

(* Mutant of formatHeaderSpaceExplanation: an explanation that cannot be   *)
(* rendered is left out.                                                   *)
formatHeaderSpaceExplanation_best_effort(obj) ==
    LET tree == parse(obj)
        es == to_explanations(tree)
        texts == [i \in 1..Len(es.items) |-> Explanation_to_str(es.items[i])]
    IN  IF IsErr(tree) THEN tree
        ELSE IF IsErr(es) THEN es
        ELSE StrJoin("\n\n", SelectSeq(texts, LAMBDA t : ~IsErr(t)))

formatHeaderSpaceExplanation(obj) ==
    LET tree == parse(obj)
        es == to_explanations(tree)
    IN  IF IsErr(tree) THEN tree
        ELSE IF IsErr(es) THEN es
        ELSE StrJoin("\n\n", [i \in 1..Len(es.items) |-> Explanation_to_str(es.items[i])])

-----------------------------------------------------------------------------
(* Inputs.                                                                 *)

SeqsUpTo(S, n) == UNION {[1..k -> S] : k \in 0..n}

Ip1 == IpIpSpace(Str(<<"1.1.1.1">>))
Ip2 == IpIpSpace(Str(<<"2.2.2.2">>))
Actions == {PERMIT, DENY}

(* AclIpSpace values handed to simplify.                                   *)
InnerLines == {AclIpSpaceLine(DENY, Ip1), PermitUniverse}
InnerAcls == {AclIpSpace(ls) : ls \in SeqsUpTo(InnerLines, MaxInnerLines)}
Deny1 == AclIpSpace(<<AclIpSpaceLine(DENY, Ip1), PermitUniverse>>)
LineSpaces ==
    {UniverseIpSpace, Ip1, IpSpaceComplement(Ip1), IpSpaceComplement(Deny1)}
        \cup InnerAcls
AclLines == {AclIpSpaceLine(a, s) : a \in Actions, s \in LineSpaces}

(* JSON values, as json.loads returns them.                                *)
J_Obj(name, kvs) == Dict(<<KV("class", Tag(name))>> \o kvs)
J_Ip(t) == J_Obj("IpIpSpace", <<KV("ip", Str(<<t>>))>>)
J_Universe == J_Obj("UniverseIpSpace", <<>>)
J_Line(a, sp) == Dict(<<KV("action", a), KV("ipSpace", sp)>>)
J_Acl(ls) == J_Obj("AclIpSpace", <<KV("lines", List(ls))>>)
J_MatchHeaderSpace(h) == J_Obj("acl.MatchHeaderSpace", <<KV("headerSpace", h)>>)
J_MatchSrcInterface(l) == J_Obj("acl.MatchSrcInterface", <<KV("srcInterfaces", List(l))>>)
J_Not(x) == J_Obj("acl.NotMatchExpr", <<KV("operand", x)>>)
J_And(cs) == J_Obj("acl.AndMatchExpr", <<KV("conjuncts", List(cs))>>)
J_Or(ds) == J_Obj("acl.OrMatchExpr", <<KV("disjuncts", List(ds))>>)
J_OriginatingFromDevice == J_Obj("acl.OriginatingFromDevice", <<>>)
J_True == J_Obj("acl.TrueExpr", <<>>)

J_Leaves == {J_Ip("1.1.1.1"), J_Ip("2.2.2.2"), J_Universe}
J_InnerLines == {J_Line(PERMIT, J_Ip("1.1.1.1")), J_Line(DENY, J_Ip("1.1.1.1"))}
J_InnerAcls == {J_Acl(ls) : ls \in SeqsUpTo(J_InnerLines, MaxInnerLines)}
J_Lines ==
    {J_Line(a, sp) : a \in Actions, sp \in J_Leaves}
        \cup {J_Line(PERMIT, sp) : sp \in J_InnerAcls}
        \cup {J_Line(DENY, J_Acl(<<J_Line(PERMIT, J_Ip("1.1.1.1"))>>))}

Eth0 == Str(<<"E", "t", "h", "0">>)
Eth1 == Str(<<"E", "t", "h", "1">>)
InterfaceLists == {<<>>, <<Eth0>>, <<Eth1, Eth0>>}

HS_srcIps == Dict(<<KV("srcIps", Str(<<"1.1.1.1">>))>>)
HS_dstPorts == Dict(<<KV("dstPorts", Str(<<"8", "0", "-", "8", "0">>))>>)
HS_empty == Dict(<<>>)
HS_null == Dict(<<KV("srcIps", None)>>)
HeaderSpaces == {HS_srcIps, HS_dstPorts, HS_empty, HS_null}

J_Conjuncts ==
    {J_MatchHeaderSpace(h) : h \in HeaderSpaces \ {HS_null}}
        \cup {J_Not(J_MatchHeaderSpace(h)) : h \in HeaderSpaces \ {HS_empty}}
        \cup {J_MatchSrcInterface(l) : l \in InterfaceLists}
        \cup {J_OriginatingFromDevice, J_True, J_Not(J_OriginatingFromDevice)}

J_OrConjuncts == {J_MatchHeaderSpace(HS_srcIps), J_MatchSrcInterface(<<Eth0>>)}
J_Disjuncts ==
    {J_MatchHeaderSpace(HS_dstPorts), J_Not(J_MatchHeaderSpace(HS_null)),
     J_Not(J_MatchHeaderSpace(HS_dstPorts)), J_MatchSrcInterface(<<Eth0>>),
     J_OriginatingFromDevice, J_True}
        \cup {J_And(cs) : cs \in SeqsUpTo(J_OrConjuncts, MaxOrConjuncts)}
        \cup {J_Or(<<>>), J_Or(<<J_True>>)}

(* IP spaces handed to to_str.  A value written twice stands for the same  *)
(* object used twice.                                                      *)
Net1 == Str(<<"1.1.1.0/24">>)
Net2 == Str(<<"2.2.2.0/24">>)
WildcardSet == IpWildcardSetIpSpace(List(<<Net1, Net2>>))
Operands ==
    {Ip1, Ip2, UniverseIpSpace, IpWildcardIpSpace(Net1), WildcardSet, Deny1,
     IpSpaceComplement(Ip1), UnionIpSpace(MapIter(<<Ip1, Ip2>>, FALSE))}
Spaces ==
    Operands
        \cup {IpSpaceComplement(x) : x \in Operands}
        \cup {IpSpaceIntersection(xs) : xs \in SeqsUpTo(Operands, MaxOperands)}
        \cup {UnionIpSpace(List(xs)) : xs \in SeqsUpTo(Operands, MaxOperands)}

(* Other values handed to to_str: what parse gives for JSON scalars,       *)
(* lists and mappings, and header spaces.                                  *)
Word == Str(<<"abc">>)
Scalars == {Word, Bool(TRUE), Bool(FALSE), PyInt(5), SubRange(80, 80), SubRange(80, 90)}
Lists == {List(xs) : xs \in SeqsUpTo(Scalars, MaxItems)}
Mappings ==
    {Dict(<<>>), Dict(<<KV("class", Word)>>), Dict(<<KV("a", Word), KV("b", Bool(TRUE))>>)}
        \cup {Dict(<<KV("a", v)>>) : v \in Scalars \cup {None}}

(* A TCP-flag mapping: the flags of use have their use-boolean true, the   *)
(* flags of val have the paired value true.                                *)
TcpFlags(use, val) ==
    Dict(<<KV("tcpFlags",
              Dict([i \in 1..Len(useToFlag) |->
                       KV(useToFlag[i].v, Bool(useToFlag[i].v \in val))]))>>
         \o [i \in 1..Len(useToFlag) |->
                KV(useToFlag[i].k, Bool(useToFlag[i].v \in use))])
FlagSets == SUBSET {"ack", "syn"}
TcpFlagMappings == {TcpFlags(use, val) : use \in FlagSets, val \in FlagSets}

HeaderSpaceFields ==
    {KV("srcIps", Str(<<"1.1.1.1">>)), KV("dstPorts", SubRange(80, 80)),
     KV("negate", Bool(FALSE)), KV("negate", Bool(TRUE)),
     KV("tcpFlagsMatchConditions", List(<<TcpFlags({"syn"}, {"syn"})>>))}
FieldMaps ==
    {Dict(fs) : fs \in {gs \in SeqsUpTo(HeaderSpaceFields, MaxFields) :
                           \A i, j \in 1..Len(gs) : gs[i].k = gs[j].k => i = j}}
Values ==
    Scalars \cup Lists \cup Mappings \cup TcpFlagMappings
        \cup {List(<<f, f>>) : f \in TcpFlagMappings}
        \cup {MatchHeaderSpace(h) : h \in FieldMaps \cup {None}}
        \cup {None}

(* Conjuncts of every kind, those from_conjucts knows and others: a Not of *)
(* something else, a nested And or Or, an object without a registered tag, *)
(* a string.                                                               *)
J_AnyConjuncts ==
    {J_MatchHeaderSpace(HS_srcIps), J_MatchSrcInterface(<<Eth0>>),
     J_OriginatingFromDevice, J_True, J_Not(J_MatchHeaderSpace(HS_dstPorts)),
     J_Not(J_MatchSrcInterface(<<Eth0>>)), J_Not(J_OriginatingFromDevice),
     J_Not(J_Not(J_MatchHeaderSpace(HS_srcIps))), J_And(<<>>),
     J_And(<<J_MatchHeaderSpace(HS_srcIps)>>), J_Or(<<J_True>>),
     Dict(<<KV("class", Word)>>), Word}

(* JSON values handed to parse that are no object with a registered tag:   *)
(* strings over a few characters, scalars, and objects whose class is      *)
(* absent or is some other value.                                          *)
J_Strings == {Str(t) : t \in SeqsUpTo({"0", "7", "-", "x"}, MaxChars)}
J_Tags ==
    {Word, Str(<<TagPrefix, "Foo">>), Str(<<"IpIpSpace">>), None, PyInt(5), Bool(TRUE),
     List(<<>>), List(<<Tag("IpIpSpace")>>), Dict(<<>>)}
J_Untagged ==
    {Dict(<<>>), Dict(<<KV("ip", Word)>>), Dict(<<KV("a", J_Ip("1.1.1.1"))>>)}
        \cup {Dict(<<KV("class", c), KV("ip", Word)>>) : c \in J_Tags}
J_Plain == J_Strings \cup J_Untagged \cup {Bool(TRUE), Bool(FALSE), PyInt(5), None}

-----------------------------------------------------------------------------
(* What a render leaves of a value: every map iterator under it has been   *)
(* consumed.  Within the values Parse stores, a render that reaches a node *)
(* reaches every iterator under it.                                        *)
RECURSIVE Consumed(_)
Consumed(v) ==
    CASE v.cls = "UnionIpSpace" ->
            UnionIpSpace(MapIter([i \in 1..Len(v.ipSpaces.items) |->
                                     Consumed(v.ipSpaces.items[i])], TRUE))
      [] v.cls = "AclIpSpace" ->
            AclIpSpace([i \in 1..Len(v.lines) |->
                AclIpSpaceLine(v.lines[i].action, Consumed(v.lines[i].ipSpace))])
      [] OTHER -> v

-----------------------------------------------------------------------------
(* pybatfish/validation/commands.py: commands, their results, and the      *)
(* CommandList that runs them.                                             *)
(*                                                                         *)
(* The session is an external collaborator: the model keeps the history of *)
(* the calls it received, each with whether the session raised, and takes  *)
(* what the session does (env) as an input of each command's run.  What a  *)
(* session call returns is an opaque value of class SessionResult.         *)

CommandExecutionStatus == [SUCCESS |-> "Success", FAILURE |-> "Failure", ERROR |-> "Error"]

CommandResult(command, status, result, error) ==
    [cls |-> "CommandResult", command |-> command, status |-> status,
     result |-> result, error |-> error]

InitSnapshot(name, upload, overwrite) ==
    [cls |-> "InitSnapshot", name |-> name, upload |-> upload, overwrite |-> overwrite]
SetNetwork(name) == [cls |-> "SetNetwork", name |-> name]
ShowAnswer(question, name, params) ==
    [cls |-> "ShowAnswer", question |-> question, name |-> name, params |-> params]
ValidateFacts(nodes, dir_in) == [cls |-> "ValidateFacts", nodes |-> nodes, dir_in |-> dir_in]
CommandList(name, cmds) == [cls |-> "CommandList", name |-> name, cmds |-> cmds]

(* What a run gives: the session after it, and the value returned or the   *)
(* exception raised.                                                       *)
Ran(s, v) == [session |-> s, value |-> v]

InitSnapshot_run(self, s, env) ==
    LET called == Append(s, [method |-> "init_snapshot",
                                args |-> <<self.upload, self.name, self.overwrite>>,
                                raised |-> env = "raise"])
    IN  IF env = "raise" THEN Ran(called, Error("SessionError"))
        ELSE Ran(called, CommandResult("InitSnapshot", CommandExecutionStatus.SUCCESS,
                                       [cls |-> "SessionResult", of |-> "init_snapshot"], None))

SetNetwork_run(self, s, env) ==
    LET called == Append(s, [method |-> "set_network", args |-> <<self.name>>, raised |-> env = "raise"])
    IN  IF env = "raise" THEN Ran(called, Error("SessionError"))
        ELSE Ran(called, CommandResult("SetNetwork", CommandExecutionStatus.SUCCESS,
                                       [cls |-> "SessionResult", of |-> "set_network"], None))

(* The question must be one session.q has (here routes, nodeProperties and *)
(* interfaceProperties).  Unpacking params as keyword arguments is a       *)
(* TypeError when params is None, before the question is asked.            *)
ShowAnswer_run(self, s, env) ==
    IF self.question \notin {"routes", "nodeProperties", "interfaceProperties"}
    THEN Ran(s, Error("ValueError"))
    ELSE IF self.params = None THEN Ran(s, Error("TypeError"))
    ELSE LET called == Append(s, [method |-> self.question, args |-> <<self.params>>, raised |-> env = "raise"])
         IN  IF env = "raise" THEN Ran(called, Error("SessionError"))
             ELSE Ran(called, CommandResult("ShowAnswer", CommandExecutionStatus.SUCCESS,
                                            [cls |-> "SessionResult", of |-> self.question], None))

(* Two questions are asked in turn; either may raise.                      *)
get_facts(s, nodes, env) ==
    LET args == IF nodes = None THEN <<>> ELSE <<nodes>>
        first == Append(s, [method |-> "nodeProperties", args |-> args, raised |-> env = "raise"])
        second == Append(first, [method |-> "interfaceProperties", args |-> args, raised |-> env = "raise2"])
    IN  IF env = "raise" THEN Ran(first, Error("SessionError"))
        ELSE IF env = "raise2" THEN Ran(second, Error("SessionError"))
        ELSE Ran(second, [cls |-> "SessionResult", of |-> "facts"])

(* The expected facts are read from files (an IOError when one is missing) *)
(* and compared: the status is FAILURE when a node's facts differ.         *)
ValidateFacts_run(self, s, env) ==
    LET facts == get_facts(s, self.nodes, env)
    IN  IF IsErr(facts.value) THEN facts
        ELSE IF env = "ioerror" THEN Ran(facts.session, Error("IOError"))
        ELSE Ran(facts.session,
                 CommandResult("ValidateFacts",
                               IF env = "fail" THEN CommandExecutionStatus.FAILURE
                               ELSE CommandExecutionStatus.SUCCESS,
                               [cls |-> "SessionResult", of |-> "all_results"], None))

(* cmd.run(session), by the class of cmd.                                  *)
Command_run(cmd, s, env) ==
    CASE cmd.cls = "InitSnapshot" -> InitSnapshot_run(cmd, s, env)
      [] cmd.cls = "SetNetwork" -> SetNetwork_run(cmd, s, env)
      [] cmd.cls = "ShowAnswer" -> ShowAnswer_run(cmd, s, env)
      [] cmd.cls = "ValidateFacts" -> ValidateFacts_run(cmd, s, env)

(* Mutant of CommandList_run_command: the handler logs the exception and   *)
(* returns a result of status ERROR instead of raising.                    *)
CommandList_run_command_no_reraise(cmd, s, env) ==
    LET r == Command_run(cmd, s, env)
    IN  IF IsErr(r.value)
        THEN Ran(r.session,
                 CommandResult(cmd.cls, CommandExecutionStatus.ERROR, None, r.value.type))
        ELSE r

(* CommandList._run_command: the handler re-raises the exception it        *)
(* caught (raise e); the statements after the raise are never reached.     *)
CommandList_run_command(cmd, s, env) ==
    LET r == Command_run(cmd, s, env)
    IN  IF IsErr(r.value) THEN Ran(r.session, r.value) ELSE r

(* The commands of the model and what the session may do to each.          *)
Commands ==
    {InitSnapshot(Str(<<"s1">>), Str(<<"dir">>), Bool(TRUE)), SetNetwork(Str(<<"n1">>)),
     ShowAnswer("routes", None, Dict(<<>>)), ShowAnswer("nope", None, Dict(<<>>)),
     ShowAnswer("routes", None, None),
     ValidateFacts(None, Str(<<"dir">>)), ValidateFacts(Str(<<"r1">>), Str(<<"dir">>))}

Outcomes(cmd) ==
    CASE cmd.cls \in {"InitSnapshot", "SetNetwork", "ShowAnswer"} -> {"ok", "raise"}
      [] cmd.cls = "ValidateFacts" -> {"ok", "fail", "raise", "raise2", "ioerror"}

-----------------------------------------------------------------------------
(* The state machine: one action per call a user of the module makes.      *)
(* call names the last call made, arg its argument, ret what it returned   *)
(* or raised; ast is the tree the parser built, and renders counts the     *)
(* calls of to_str on it.  session is the history of the calls the session *)
(* passed to CommandList.run has received, and results the list that       *)
(* run's comprehension has built so far.                                   *)

Init ==
    /\ call = "none"
    /\ arg = None
    /\ ret = None
    /\ ast = None
    /\ renders = 0
    /\ session = <<>>
    /\ results = <<>>

(* a.simplify() for an AclIpSpace a.                                       *)
Simplify ==
    /\ call = "none"
    /\ \E k \in 0..MaxLines : \E ls \in [1..k -> AclLines] :
        /\ call' = "simplify"
        /\ arg' = AclIpSpace(ls)
        /\ ret' = obj_simplify(AclIpSpace(ls))
        /\ UNCHANGED <<ast, renders, session, results>>

(* a.simplify().simplify(): simplify applied to the value the last call    *)
(* returned.                                                               *)
SimplifyAgain ==
    /\ call = "simplify"
    /\ call' = "simplify.simplify"
    /\ ret' = obj_simplify(ret)
    /\ UNCHANGED <<arg, ast, renders, session, results>>

(* Explanation.from_conjucts on a list of parsed conjuncts.                *)
FromConjucts ==
    /\ call = "none"
    /\ \E k \in 0..MaxConjuncts : \E cs \in [1..k -> J_Conjuncts] :
        /\ call' = "from_conjucts"
        /\ arg' = parse(List(cs))
        /\ ret' = Explanation_from_conjucts(parse(List(cs)).items)
        /\ UNCHANGED <<ast, renders, session, results>>

(* Explanation.from_conjucts on conjuncts of every kind.                   *)
FromConjuctsAny ==
    /\ call = "none"
    /\ \E k \in 0..MaxAnyConjuncts : \E cs \in [1..k -> J_AnyConjuncts] :
        /\ call' = "from_conjucts"
        /\ arg' = parse(List(cs))
        /\ ret' = Explanation_from_conjucts(parse(List(cs)).items)
        /\ UNCHANGED <<ast, renders, session, results>>

FormatInputs(obj) ==
    /\ call' = "format"
    /\ arg' = obj
    /\ ast' = parse(obj)
    /\ ret' = formatHeaderSpaceExplanation(obj)
    /\ UNCHANGED <<renders, session, results>>

(* formatHeaderSpaceExplanation on the JSON of a conjunction.              *)
FormatAnd ==
    /\ call = "none"
    /\ \E k \in 0..MaxConjuncts : \E cs \in [1..k -> J_Conjuncts] : FormatInputs(J_And(cs))

(* ... of a disjunction.                                                   *)
FormatOr ==
    /\ call = "none"
    /\ \E k \in 0..MaxDisjuncts : \E ds \in [1..k -> J_Disjuncts] : FormatInputs(J_Or(ds))

(* ... of any other node.                                                  *)
FormatOther ==
    /\ call = "none"
    /\ \E obj \in J_Conjuncts : FormatInputs(obj)

(* parse on the JSON of an ACL ip space.                                   *)
Parse ==
    /\ call = "none"
    /\ \E k \in 0..MaxParseLines : \E ls \in [1..k -> J_Lines] :
        /\ call' = "parse"
        /\ arg' = J_Acl(ls)
        /\ ast' = parse(J_Acl(ls))
        /\ ret' = parse(J_Acl(ls))
        /\ UNCHANGED <<renders, session, results>>

(* parse on a JSON value that is no object with a registered tag.          *)
ParseValue ==
    /\ call = "none"
    /\ \E v \in J_Plain :
        /\ call' = "parseValue"
        /\ arg' = v
        /\ ret' = parse(v)
        /\ UNCHANGED <<ast, renders, session, results>>

(* to_str on the tree the parser returned; the iterators it reads are      *)
(* consumed.                                                               *)
Render ==
    /\ call \in {"parse", "to_str"}
    /\ renders < MaxRenders
    /\ call' = "to_str"
    /\ ret' = to_str(ast)
    /\ ast' = Consumed(ast)
    /\ renders' = renders + 1
    /\ UNCHANGED <<arg, session, results>>

(* to_str on an IP space.                                                  *)
RenderSpace ==
    /\ call = "none"
    /\ \E x \in Spaces :
        /\ call' = "render"
        /\ arg' = x
        /\ ret' = to_str(x)
        /\ UNCHANGED <<ast, renders, session, results>>

(* to_str on any other value.                                              *)
RenderValue ==
    /\ call = "none"
    /\ \E v \in Values :
        /\ call' = "render"
        /\ arg' = v
        /\ ret' = to_str(v)
        /\ UNCHANGED <<ast, renders, session, results>>

(* CommandList(name, cmds).run(session) is entered with a new session.     *)
Run ==
    /\ call = "none"
    /\ \E k \in 0..MaxCmds : \E cs \in [1..k -> Commands] :
        /\ call' = "run"
        /\ arg' = CommandList(Str(<<"policy">>), cs)
        /\ ret' = None
        /\ session' = <<>>
        /\ results' = <<>>
        /\ UNCHANGED <<ast, renders>>

(* One step of run's list comprehension: the next command is run; its      *)
(* result joins the list, or its exception leaves run.                     *)
RunCommand ==
    /\ call = "run"
    /\ Len(results) < Len(arg.cmds)
    /\ \E env \in Outcomes(arg.cmds[Len(results) + 1]) :
        LET r == CommandList_run_command(arg.cmds[Len(results) + 1], session, env)
        IN  /\ session' = r.session
            /\ IF IsErr(r.value)
               THEN /\ call' = "run.raised"
                    /\ ret' = r.value
                    /\ UNCHANGED results
               ELSE /\ results' = Append(results, r.value)
                    /\ UNCHANGED <<call, ret>>
    /\ UNCHANGED <<arg, ast, renders>>

(* The comprehension is done and run returns its list.                     *)
RunReturn ==
    /\ call = "run"
    /\ Len(results) = Len(arg.cmds)
    /\ call' = "run.returned"
    /\ ret' = List(results)
    /\ UNCHANGED <<arg, ast, renders, session, results>>

Next ==
    \/ FromConjucts
    \/ FormatAnd
    \/ FormatOr
    \/ FormatOther
    \/ Parse
    \/ Render

Spec == Init /\ [][Next]_vars

NextSimplify ==
    \/ Simplify
    \/ SimplifyAgain

SpecSimplify == Init /\ [][NextSimplify]_vars

NextValues ==
    \/ RenderSpace
    \/ RenderValue
    \/ FromConjuctsAny
    \/ ParseValue

SpecValues == Init /\ [][NextValues]_vars

NextCommands ==
    \/ Run
    \/ RunCommand
    \/ RunReturn

SpecCommands == Init /\ [][NextCommands]_vars

-----------------------------------------------------------------------------
(* Properties of the simplifier, checked under SpecSimplify.               *)

(* arg is AclIpSpace([Deny(S), Permit(Universe)]).                         *)
IsDenyPermitAll(a) ==
    /\ a.cls = "AclIpSpace"
    /\ Len(a.lines) = 2
    /\ a.lines[1].action = DENY
    /\ a.lines[2] = PermitUniverse

(* arg is AclIpSpace([Deny(Complement(X)), Deny(Complement(Y)),            *)
(* Permit(Universe)]).                                                     *)
IsDenyDenyPermitAll(a) ==
    /\ a.cls = "AclIpSpace"
    /\ Len(a.lines) = 3
    /\ a.lines[1].action = DENY /\ a.lines[1].ipSpace.cls = "IpSpaceComplement"
    /\ a.lines[2].action = DENY /\ a.lines[2].ipSpace.cls = "IpSpaceComplement"
    /\ a.lines[3] = PermitUniverse

(* C1 as stated: for every IP space S, also an AclIpSpace,                 *)
(* simplify(AclIpSpace([Deny(S), Permit(Universe)])) is Complement(S).     *)
C1_AsStated ==
    (call = "simplify" /\ IsDenyPermitAll(arg))
        => ret = IpSpaceComplement(arg.lines[1].ipSpace)

(* C1 amended: simplify(AclIpSpace([Deny(S), Permit(Universe)])) is        *)
(* Complement(S) when S is no AclIpSpace, and Complement(simplify(S)) when *)
(* S is an AclIpSpace: the lines are simplified before the rule is tried.  *)
C1_ComplementOfSimplified ==
    (call = "simplify" /\ IsDenyPermitAll(arg))
        => LET S == arg.lines[1].ipSpace
           IN  ret = IpSpaceComplement(IF S.cls = "AclIpSpace"
                                       THEN AclIpSpace_simplify(S) ELSE S)

C1_Witness ==
    /\ call = "simplify"
    /\ IsDenyPermitAll(arg)
    /\ arg.lines[1].ipSpace = Deny1
    /\ ret = IpSpaceComplement(IpSpaceComplement(Ip1))

(* C2: simplify(AclIpSpace([Deny(Complement(X)), Deny(Complement(Y)),      *)
(* Permit(Universe)])) is Intersection([X, Y]), X before Y, for all X, Y.  *)
C2_IntersectionInOrder ==
    (call = "simplify" /\ IsDenyDenyPermitAll(arg))
        => ret = IpSpaceIntersection(<<arg.lines[1].ipSpace.ipSpace,
                                       arg.lines[2].ipSpace.ipSpace>>)

C2_Witness ==
    /\ call = "simplify"
    /\ IsDenyDenyPermitAll(arg)
    /\ arg.lines[1].ipSpace.ipSpace = Deny1
    /\ arg.lines[2].ipSpace.ipSpace = Ip1
    /\ ret = IpSpaceIntersection(<<Deny1, Ip1>>)

(* C3 as stated: simplify is idempotent: for every AclIpSpace a, simplify  *)
(* applied to simplify(a) succeeds and returns simplify(a).                *)
C3_Idempotent ==
    call = "simplify.simplify" => (~IsErr(ret) /\ ret = AclIpSpace_simplify(arg))

-----------------------------------------------------------------------------
(* Properties of the explanation builder and of format, checked under      *)
(* Spec.                                                                   *)

Count(xs, classes) == Cardinality({i \in 1..Len(xs) : xs[i].cls \in classes})
Originations == {"MatchSrcInterface", "OriginatingFromDevice"}

(* C4: from_conjucts fails whenever the conjuncts hold two or more         *)
(* MatchHeaderSpace or two or more originations (MatchSrcInterface and     *)
(* OriginatingFromDevice in any mix); an Explanation it returns holds the  *)
(* only header space and the only origination of the conjuncts.            *)
C4_NoSilentOverwrite ==
    call = "from_conjucts" =>
        LET cs == arg.items
        IN  /\ (Count(cs, {"MatchHeaderSpace"}) >= 2 \/ Count(cs, Originations) >= 2)
                => IsErr(ret)
            /\ ~IsErr(ret) =>
                /\ \A i \in 1..Len(cs) :
                      cs[i].cls = "MatchHeaderSpace" => ret.positiveHeaderSpace = cs[i]
                /\ \A i \in 1..Len(cs) :
                      cs[i].cls \in Originations => ret.origination = cs[i]

C4_Witness ==
    /\ call = "from_conjucts"
    /\ Len(arg.items) = 3
    /\ arg.items[1].cls = "OriginatingFromDevice"
    /\ arg.items[2].cls = "NotMatchExpr"
    /\ arg.items[3].cls = "MatchSrcInterface"
    /\ IsErr(ret)

(* A header space whose fields all have a value.                           *)
Renders(h) == \A i \in 1..Len(h.headerSpace.items) : h.headerSpace.items[i].v # None

(* The tree is And(...) of at most one MatchSrcInterface with interfaces,  *)
(* at most one MatchHeaderSpace and any number of Not(MatchHeaderSpace).   *)
IsPlainAnd(t) ==
    /\ t.cls = "AndMatchExpr"
    /\ Count(t.conjuncts, {"MatchSrcInterface"}) <= 1
    /\ Count(t.conjuncts, {"MatchHeaderSpace"}) <= 1
    /\ \A i \in 1..Len(t.conjuncts) :
          LET c == t.conjuncts[i]
          IN  \/ c.cls = "MatchSrcInterface" /\ Len(c.srcInterfaces.items) > 0
              \/ c.cls = "MatchHeaderSpace" /\ Renders(c)
              \/ c.cls = "NotMatchExpr" /\ c.operand.cls = "MatchHeaderSpace"
                                        /\ Renders(c.operand)

OfClass(xs, c) == SelectSeq(xs, LAMBDA x : x.cls = c)
NewLines(t) == Cardinality({i \in 1..Len(t) : t[i] = "\n"})

(* C5: format of And(MatchSrcInterface, MatchHeaderSpace,                  *)
(* Not(MatchHeaderSpace)...), the conjuncts in any order, is one block:    *)
(* the origination line if there is an origination, then "Including p" for *)
(* the header space p or "Full HeaderSpace" without one, then one          *)
(* "Excluding n" per Not conjunct in the order of the conjuncts; it has    *)
(* (1 if origination) + 1 + (number of Not conjuncts) lines.               *)
C5_BlockInFixedOrder ==
    (call = "format" /\ IsPlainAnd(ast)) =>
        LET msi == OfClass(ast.conjuncts, "MatchSrcInterface")
            pos == OfClass(ast.conjuncts, "MatchHeaderSpace")
            neg == OfClass(ast.conjuncts, "NotMatchExpr")
            first == IF Len(msi) = 1 THEN <<OriginationLines(msi[1])[1].s>> ELSE <<>>
            second == IF Len(pos) = 1
                      THEN <<"Including ">> \o MatchHeaderSpace_to_str(pos[1]).s
                      ELSE <<"Full HeaderSpace">>
            rest == [i \in 1..Len(neg) |->
                        <<"Excluding ">> \o MatchHeaderSpace_to_str(neg[i].operand).s]
        IN  /\ ret = Str(Join(first \o <<second>> \o rest, "\n"))
            /\ NewLines(ret.s) + 1 = Len(msi) + 1 + Len(neg)

C5_Witness ==
    /\ call = "format"
    /\ IsPlainAnd(ast)
    /\ Len(ast.conjuncts) = 3
    /\ ast.conjuncts[1].cls = "NotMatchExpr"
    /\ ast.conjuncts[2].cls = "MatchHeaderSpace"
    /\ ast.conjuncts[3].cls = "MatchSrcInterface"
    /\ ret.cls = "str"
    /\ NewLines(ret.s) = 2

(* t starts with the tokens of p.                                          *)
StartsWith(t, p) == Len(t) >= Len(p) /\ SubSeq(t, 1, Len(p)) = p

(* C6 as stated: the origination line of a MatchSrcInterface with two or   *)
(* more interfaces is "Originating from one interface of: " and all the    *)
(* interface names in order, joined by ", "; with exactly one interface X  *)
(* it is "Originating from interface X".                                   *)
C6_AllInterfacesNamed ==
    (call = "format" /\ IsPlainAnd(ast)
        /\ Len(OfClass(ast.conjuncts, "MatchSrcInterface")) = 1) =>
        LET ifaces == OfClass(ast.conjuncts, "MatchSrcInterface")[1].srcInterfaces.items
            names == [i \in 1..Len(ifaces) |-> ifaces[i].s]
        IN  /\ ret.cls = "str"
            /\ StartsWith(ret.s,
                   (IF Len(ifaces) = 1 THEN <<"Originating from interface ">> \o names[1]
                    ELSE <<"Originating from one interface of: ">> \o Join(names, ", "))
                   \o <<"\n">>)

(* The disjuncts of the JSON of a disjunction.                             *)
J_DisjunctsOf(obj) == Get(obj, "disjuncts").items

(* C7: format of Or(d1..dn), each di an And, MatchHeaderSpace,             *)
(* OriginatingFromDevice or True that yields one explanation, is n blocks  *)
(* in the order d1..dn with exactly one blank line between consecutive     *)
(* blocks, and block i is what format gives for di alone.                  *)
C7_OneBlockPerDisjunct ==
    (/\ call = "format"
     /\ ast.cls = "OrMatchExpr"
     /\ \A i \in 1..Len(ast.disjuncts) :
           /\ ast.disjuncts[i].cls \in {"AndMatchExpr", "MatchHeaderSpace",
                                        "OriginatingFromDevice", "TrueExpr"}
           /\ ~IsErr(formatHeaderSpaceExplanation(J_DisjunctsOf(arg)[i])))
        => LET ds == J_DisjunctsOf(arg)
               blocks == [i \in 1..Len(ds) |-> formatHeaderSpaceExplanation(ds[i]).s]
           IN  /\ ret = Str(Join(blocks, "\n\n"))
               /\ Len(ds) > 0 =>
                     Cardinality({i \in 1..Len(ret.s) : ret.s[i] = "\n\n"}) = Len(ds) - 1

C7_Witness ==
    /\ call = "format"
    /\ ast.cls = "OrMatchExpr"
    /\ Len(ast.disjuncts) = 2
    /\ ast.disjuncts[1].cls = "AndMatchExpr"
    /\ Len(ast.disjuncts[1].conjuncts) = 2
    /\ ast.disjuncts[2].cls = "MatchHeaderSpace"
    /\ ret.cls = "str"
    /\ Cardinality({i \in 1..Len(ret.s) : ret.s[i] = "\n\n"}) = 1

(* C8 as stated: every disjunct of an Or is expanded to its own            *)
(* explanations, also a disjunct that is itself an Or: format of an Or     *)
(* whose disjuncts all have explanations does not fail.                    *)
C8_NestedOrExpanded ==
    (/\ call = "format"
     /\ ast.cls = "OrMatchExpr"
     /\ \A i \in 1..Len(ast.disjuncts) :
           ~IsErr(formatHeaderSpaceExplanation(J_DisjunctsOf(arg)[i])))
        => ~IsErr(ret)

(* C9 as stated: format of a top-level MatchHeaderSpace,                   *)
(* Not(MatchHeaderSpace), OriginatingFromDevice or True is one block, the  *)
(* rendering of from_conjucts applied to that node alone.                  *)
C9_SingleNodeBlock ==
    (/\ call = "format"
     /\ ast.cls \in {"MatchHeaderSpace", "NotMatchExpr", "OriginatingFromDevice",
                     "TrueExpr"}
     /\ ~IsErr(Explanation_from_conjucts(<<ast>>)))
        => ret = Explanation_to_str(Explanation_from_conjucts(<<ast>>))

-----------------------------------------------------------------------------
(* Properties of the parser, checked under Spec.                           *)

J_LinesOf(obj) == Get(obj, "lines").items
UnionExample == J_Acl(<<J_Line(PERMIT, J_Ip("1.1.1.1")), J_Line(PERMIT, J_Ip("2.2.2.2"))>>)

(* C10: parsing an ACL object whose lines all have action PERMIT gives a   *)
(* Union of exactly the lines' parsed spaces, in line order; an ACL object *)
(* with a line of another action gives an AclIpSpace of all the lines in   *)
(* order; the Union parsed from PERMIT 1.1.1.1, PERMIT 2.2.2.2 renders as  *)
(* "union(1.1.1.1, 2.2.2.2)" when the parsed value is rendered.            *)
C10_AllPermitIsUnion ==
    /\ call = "parse" =>
          LET ls == J_LinesOf(arg)
              spaces == [i \in 1..Len(ls) |-> parse(Get(ls[i], "ipSpace"))]
          IN  IF \A i \in 1..Len(ls) : Get(ls[i], "action") = PERMIT
              THEN /\ ret.cls = "UnionIpSpace"
                   /\ ListOf(ret.ipSpaces) = spaces
              ELSE /\ ret.cls = "AclIpSpace"
                   /\ ret.lines = [i \in 1..Len(ls) |->
                                      AclIpSpaceLine(Get(ls[i], "action"), spaces[i])]
    /\ (call = "to_str" /\ renders = 1 /\ arg = UnionExample)
          => ret = Str(<<"union(", "1.1.1.1", ", ", "2.2.2.2", ")">>)

C10_Witness ==
    /\ call = "to_str"
    /\ renders = 1
    /\ arg = UnionExample
    /\ ret = Str(<<"union(", "1.1.1.1", ", ", "2.2.2.2", ")">>)


-----------------------------------------------------------------------------
(* Properties of the renderer, checked under SpecValues.                   *)

(* The texts of the operands, as to_str gives them for each alone.         *)
OperandTexts(xs) == [i \in 1..Len(xs) |-> to_str(xs[i]).s]

(* C11 as stated: to_str of Intersection([X, X]) is to_str of X for every  *)
(* IP space X, also an IpWildcardSet, a Union or an AclDerived; an         *)
(* Intersection whose operands are not all equal renders as "intersect("   *)
(* and the operands' texts joined by ", " and ")".                         *)
C11_IntersectionCollapse ==
    (call = "render" /\ arg.cls = "IpSpaceIntersection" /\ Len(arg.ipSpaces) = 2) =>
        LET xs == arg.ipSpaces
        IN  IF xs[1] = xs[2] THEN ret = to_str(xs[1])
            ELSE ret = Str(<<"intersect(">> \o Join(OperandTexts(xs), ", ") \o <<")">>)


(* C12 as stated: to_str of a Union of two or more operands that all       *)
(* render identically is the text of the single operand, without the       *)
(* "union(...)" wrapper.                                                   *)
C12_UnionCollapse ==
    (/\ call = "render"
     /\ arg.cls = "UnionIpSpace"
     /\ Len(ListOf(arg.ipSpaces)) >= 2
     /\ \A i \in 1..Len(ListOf(arg.ipSpaces)) :
           /\ to_str(ListOf(arg.ipSpaces)[i]).cls = "str"
           /\ to_str(ListOf(arg.ipSpaces)[i]) = to_str(ListOf(arg.ipSpaces)[1]))
        => ret = to_str(ListOf(arg.ipSpaces)[1])

HasAclOperand(xs) == \E i \in 1..Len(xs) : xs[i].cls = "AclIpSpace"

(* C13 as stated: an AclDerived that is the operand of a Complement or of  *)
(* a Union contributes the text to_str gives for it alone, the rendering   *)
(* of its simplification: Complement(a) is "not " and that text, a Union   *)
(* of one operand a is that text, a Union of operands with different texts *)
(* is "union(" and the texts joined by ", " and ")".                       *)
C13_AclOperandSimplified ==
    /\ (call = "render" /\ arg.cls = "IpSpaceComplement"
            /\ arg.ipSpace.cls = "AclIpSpace")
          => ret = Str(<<"not ">> \o to_str(arg.ipSpace).s)
    /\ (call = "render" /\ arg.cls = "UnionIpSpace"
            /\ HasAclOperand(ListOf(arg.ipSpaces)))
          => LET xs == ListOf(arg.ipSpaces)
             IN  \/ Len(xs) = 1 /\ ret = to_str(xs[1])
                 \/ Len(xs) = 2 /\ to_str(xs[1]) = to_str(xs[2])
                 \/ Len(xs) >= 2
                      /\ ret = Str(<<"union(">> \o Join(OperandTexts(xs), ", ") \o <<")">>)


(* C14 as stated: to_str returns text, without failing, for every value    *)
(* other than null: strings, booleans, numbers, lists, mappings, TCP-flag  *)
(* mappings, SubRange, every IP space and MatchHeaderSpace.                *)
C14_RenderTotal ==
    (call = "render" /\ arg # None) => ret.cls = "str"

IsTcpFlags(v) == v.cls = "dict" /\ HasKey(v, "tcpFlags")

(* The flags whose use-boolean is true, and the mapping with the paired    *)
(* values of all other flags cleared.                                      *)
FlagsInUse(m) ==
    {useToFlag[i].v : i \in {j \in 1..Len(useToFlag) : Get(m, useToFlag[j].k) = Bool(TRUE)}}
ClearUnused(m) ==
    TcpFlags(FlagsInUse(m),
             {f \in FlagsInUse(m) : Get(Get(m, "tcpFlags"), f) = Bool(TRUE)})

(* C18 as stated: to_str of a TCP-flag mapping is text that names exactly  *)
(* the flags whose use-boolean is true, under their short names, and it is *)
(* the same for two mappings that differ only in the paired values of      *)
(* flags whose use-boolean is false.                                       *)
C18_FlagsInUseNamed ==
    (call = "render" /\ IsTcpFlags(arg)) =>
        /\ ret.cls = "str"
        /\ \A i \in 1..Len(useToFlag) :
              (\E j \in 1..Len(ret.s) : ret.s[j] = useToFlag[i].v)
                  <=> useToFlag[i].v \in FlagsInUse(arg)
        /\ ret = to_str(ClearUnused(arg))


-----------------------------------------------------------------------------
(* Properties of failures in format, checked under Spec.                   *)

(* No explanation can be built from the conjuncts, or the one built cannot *)
(* be rendered: a second header space or origination, a Not of something   *)
(* other than a header space, a header-space field without a value, a      *)
(* MatchSrcInterface without interfaces.                                   *)
BadConjuncts(cs) ==
    \/ Count(cs, {"MatchHeaderSpace"}) >= 2
    \/ Count(cs, Originations) >= 2
    \/ \E i \in 1..Len(cs) :
          \/ cs[i].cls = "NotMatchExpr" /\ cs[i].operand.cls # "MatchHeaderSpace"
          \/ cs[i].cls = "NotMatchExpr" /\ cs[i].operand.cls = "MatchHeaderSpace"
                /\ ~Renders(cs[i].operand)
          \/ cs[i].cls = "MatchHeaderSpace" /\ ~Renders(cs[i])
          \/ cs[i].cls = "MatchSrcInterface" /\ Len(cs[i].srcInterfaces.items) = 0

ConjunctsOf(d) ==
    IF d.cls = "AndMatchExpr" THEN d.conjuncts
    ELSE IF d.cls = "TrueExpr" THEN <<>> ELSE <<d>>

(* C15: a failure anywhere aborts the whole format call: when the          *)
(* conjuncts of a top-level And give no renderable explanation, or one     *)
(* disjunct of a top-level Or gives none, format fails and returns no      *)
(* text, whatever the other disjuncts are.                                 *)
C15_FailureAbortsCall ==
    call = "format" =>
        /\ (ast.cls = "AndMatchExpr" /\ BadConjuncts(ast.conjuncts)) => IsErr(ret)
        /\ (ast.cls = "OrMatchExpr"
                /\ \E i \in 1..Len(ast.disjuncts) :
                      BadConjuncts(ConjunctsOf(ast.disjuncts[i])))
              => IsErr(ret)

C15_Witness ==
    /\ call = "format"
    /\ ast.cls = "OrMatchExpr"
    /\ Len(ast.disjuncts) = 2
    /\ ast.disjuncts[1].cls = "MatchHeaderSpace"
    /\ ~BadConjuncts(ConjunctsOf(ast.disjuncts[1]))
    /\ ast.disjuncts[2].cls = "NotMatchExpr"
    /\ BadConjuncts(ConjunctsOf(ast.disjuncts[2]))
    /\ IsErr(ret)


-----------------------------------------------------------------------------
(* Properties of the explanation builder: C16 checked under SpecValues,    *)
(* C17 under Spec.                                                         *)

Supported(c) ==
    \/ c.cls \in {"MatchHeaderSpace", "MatchSrcInterface", "OriginatingFromDevice",
                  "TrueExpr"}
    \/ c.cls = "NotMatchExpr" /\ c.operand.cls = "MatchHeaderSpace"

(* C16: from_conjucts fails when a conjunct is a Not of anything but a     *)
(* MatchHeaderSpace, a nested And or Or, or a raw value; it succeeds only  *)
(* when every conjunct is a MatchHeaderSpace, a MatchSrcInterface, an      *)
(* OriginatingFromDevice, a Not(MatchHeaderSpace) or a True, and does      *)
(* succeed then unless two of them are header spaces or originations.      *)
C16_UnsupportedConjunctFails ==
    call = "from_conjucts" =>
        LET cs == arg.items
        IN  /\ (\E i \in 1..Len(cs) : ~Supported(cs[i])) => IsErr(ret)
            /\ ((\A i \in 1..Len(cs) : Supported(cs[i]))
                    /\ Count(cs, {"MatchHeaderSpace"}) <= 1
                    /\ Count(cs, Originations) <= 1)
                  => ret.cls = "Explanation"

C16_Witness ==
    /\ call = "from_conjucts"
    /\ Len(arg.items) = 2
    /\ arg.items[1].cls = "MatchHeaderSpace"
    /\ arg.items[2].cls = "NotMatchExpr"
    /\ arg.items[2].operand.cls = "NotMatchExpr"
    /\ IsErr(ret)

(* C17: an Explanation from_conjucts returns holds the one MatchHeaderSpace *)
(* conjunct as positiveHeaderSpace (None without one), the one             *)
(* MatchSrcInterface or OriginatingFromDevice conjunct as origination      *)
(* (None without one) and the operands of the Not conjuncts, in their      *)
(* order, as negativeHeaderSpaces; it is the Explanation of the conjuncts  *)
(* with every True removed.                                                *)
C17_FieldsOfExplanation ==
    (call = "from_conjucts" /\ ~IsErr(ret)) =>
        LET cs == arg.items
            pos == OfClass(cs, "MatchHeaderSpace")
            org == SelectSeq(cs, LAMBDA c : c.cls \in Originations)
            neg == OfClass(cs, "NotMatchExpr")
        IN  /\ ret.positiveHeaderSpace = (IF Len(pos) = 0 THEN None ELSE pos[1])
            /\ Len(pos) <= 1
            /\ ret.origination = (IF Len(org) = 0 THEN None ELSE org[1])
            /\ Len(org) <= 1
            /\ ret.negativeHeaderSpaces = [i \in 1..Len(neg) |-> neg[i].operand]
            /\ ret = Explanation_from_conjucts(SelectSeq(cs, LAMBDA c : c.cls # "TrueExpr"))

C17_Witness ==
    /\ call = "from_conjucts"
    /\ Len(arg.items) = 3
    /\ arg.items[1].cls = "NotMatchExpr"
    /\ arg.items[2].cls = "TrueExpr"
    /\ arg.items[3].cls = "NotMatchExpr"
    /\ arg.items[1] # arg.items[3]
    /\ ret.cls = "Explanation"
    /\ ret.negativeHeaderSpaces = <<arg.items[1].operand, arg.items[3].operand>>


-----------------------------------------------------------------------------
(* Properties of the parser on plain values, checked under SpecValues.     *)

AllDigits(t) == Len(t) > 0 /\ \A i \in 1..Len(t) : t[i] \in {"0", "7"}

(* The text is digits, "-", digits.                                        *)
IsRangeText(t) ==
    \E d \in 1..Len(t) :
        /\ t[d] = "-"
        /\ AllDigits(SubSeq(t, 1, d - 1))
        /\ AllDigits(SubSeq(t, d + 1, Len(t)))

(* The number a text of the digits 0 and 7 denotes.                        *)
RECURSIVE Number(_)
Number(t) ==
    IF Len(t) = 0 THEN 0
    ELSE 10 * Number(SubSeq(t, 1, Len(t) - 1)) + (IF t[Len(t)] = "7" THEN 7 ELSE 0)

(* C19 as stated: parse returns its argument unchanged, and does not fail, *)
(* for an object whose class is absent or is not a registered tag, for a   *)
(* string that does not fully match digits-digits, and for a boolean, a    *)
(* number or null; a string that fully matches digits-digits becomes the   *)
(* SubRange of the two integers.                                           *)
C19_PlainValuesUnchanged ==
    call = "parseValue" =>
        IF arg.cls = "str" /\ IsRangeText(arg.s)
        THEN \E d \in 1..Len(arg.s) :
                /\ arg.s[d] = "-"
                /\ ret = SubRange(Number(SubSeq(arg.s, 1, d - 1)),
                                  Number(SubSeq(arg.s, d + 1, Len(arg.s))))
        ELSE ret = arg


-----------------------------------------------------------------------------
(* Properties of the rendering of header spaces, checked under SpecValues. *)

(* The name a field is shown under, and the text of its value.             *)
ShownName(k) == IF k = "tcpFlagsMatchConditions" THEN "tcpFlags" ELSE k
ValueText(v) == PyStr(to_str(v))

(* C20: to_str of a MatchHeaderSpace whose field map is empty or absent is *)
(* "full headerspace"; otherwise it is one "name: value" item per field,   *)
(* in insertion order, joined by ", ": tcpFlagsMatchConditions is shown as *)
(* tcpFlags, every other name unchanged, a negate that is false gives no   *)
(* item, a negate that is true is shown.                                   *)
C20_HeaderSpaceItems ==
    (call = "render" /\ arg.cls = "MatchHeaderSpace") =>
        IF arg.headerSpace = None \/ arg.headerSpace = Dict(<<>>)
        THEN ret = Str(<<"full headerspace">>)
        ELSE LET shown == SelectSeq(arg.headerSpace.items,
                                    LAMBDA f : ~(f.k = "negate" /\ f.v = Bool(FALSE)))
             IN  ret = Str(Join([i \in 1..Len(shown) |->
                                    <<ShownName(shown[i].k), ": ">> \o ValueText(shown[i].v)],
                                ", "))

C20_Witness ==
    /\ call = "render"
    /\ arg.cls = "MatchHeaderSpace"
    /\ arg.headerSpace # None
    /\ Len(arg.headerSpace.items) = 2
    /\ arg.headerSpace.items[1] = KV("negate", Bool(TRUE))
    /\ arg.headerSpace.items[2].k = "tcpFlagsMatchConditions"
    /\ ret.cls = "str"
    /\ SubSeq(ret.s, 1, 6) = <<"negate", ": ", "True", ", ", "tcpFlags", ": ">>


-----------------------------------------------------------------------------
(* Properties of repeated rendering, checked under Spec.                   *)

(* C21: rendering leaves the rendered tree as the parser built it (a       *)
(* parsed Union still holds all its operands), so every rendering of the   *)
(* same parsed tree, the second one included, returns the text of the      *)
(* first, which is the text of the tree as parsed.                         *)
C21_RenderIsPure ==
    call = "to_str" => ret = to_str(parse(arg))


(* Checked under SpecValues.                                               *)

(* A text of no characters.                                                *)
IsEmptyText(t) == t.cls = "str" /\ \A i \in 1..Len(t.s) : t.s[i] = ""

(* C22: the text to_str returns for a MatchHeaderSpace is never empty; a   *)
(* header space whose only field is negate:false renders as                *)
(* "full headerspace", like an empty one.                                  *)
C22_HeaderSpaceTextNonEmpty ==
    (call = "render" /\ arg.cls = "MatchHeaderSpace" /\ ret.cls = "str") =>
        /\ ~IsEmptyText(ret)
        /\ arg.headerSpace = Dict(<<KV("negate", Bool(FALSE))>>)
               => ret = Str(<<"full headerspace">>)


-----------------------------------------------------------------------------
(* Properties of CommandList.run, checked under SpecCommands.              *)

(* The calls the session has received when the first n commands of cmds    *)
(* have run and none has raised.                                           *)
RECURSIVE CallsBefore(_, _)
CallsBefore(cmds, n) ==
    IF n = 0 THEN <<>>
    ELSE CallsBefore(cmds, n - 1) \o Command_run(cmds[n], <<>>, "ok").session

(* rs holds one result for each of the first commands of cmds, in order,   *)
(* none of status ERROR.                                                   *)
ResultsInOrder(rs, cmds) ==
    /\ Len(rs) <= Len(cmds)
    /\ \A i \in 1..Len(rs) :
        /\ rs[i].cls = "CommandResult"
        /\ rs[i].command = cmds[i].cls
        /\ rs[i].status \in {CommandExecutionStatus.SUCCESS, CommandExecutionStatus.FAILURE}

(* C23: run runs the commands in list order against one session; when none *)
(* raises it returns one result per command in that order; when command k  *)
(* raises, run raises that very exception, returns no list and no result   *)
(* of status ERROR, the session has received no call of a later command,   *)
(* and the calls of the commands before k stay made.                       *)
C23_RunInOrderAndFailFast ==
    /\ call \in {"run", "run.returned", "run.raised"} =>
        /\ ResultsInOrder(results, arg.cmds)
        /\ call # "run.raised" => session = CallsBefore(arg.cmds, Len(results))
    /\ call = "run.returned" =>
        /\ ret = List(results)
        /\ Len(results) = Len(arg.cmds)
    /\ call = "run.raised" =>
        /\ IsErr(ret)
        /\ Len(results) < Len(arg.cmds)
        /\ LET k == Len(results) + 1
               before == CallsBefore(arg.cmds, k - 1)
           IN  \E env \in Outcomes(arg.cmds[k]) :
                   /\ Command_run(arg.cmds[k], before, env).value = ret
                   /\ Command_run(arg.cmds[k], before, env).session = session

(* The second of three commands raised in a session call after the first   *)
(* had set the network.                                                    *)
C23_Witness ==
    /\ call = "run.raised"
    /\ Len(arg.cmds) = 3
    /\ Len(results) = 1
    /\ arg.cmds[1].cls = "SetNetwork"
    /\ arg.cmds[2].cls = "InitSnapshot"
    /\ ret = Error("SessionError")
    /\ Len(session) = 2
    /\ session[1].method = "set_network" /\ ~session[1].raised
    /\ session[2].method = "init_snapshot" /\ session[2].raised

====
